---- MODULE Spec2Model ----
EXTENDS Integers, Sequences, FiniteSets, TLC

(***************************************************************************)
(* Model of simulation.py: the 1D particle-in-cell kernel (create_matrices, *)
(* getAcc) and the time loop of main.                                       *)
(*                                                                          *)
(* Numbers.  pos and vel are float64 arrays (simulation.py:75-76).  The     *)
(* model keeps them in a scaled-down binary floating-point format: the      *)
(* representable values are the integers m * 2^e with m < 2^Prec and        *)
(* e >= 0, and every store into pos or vel rounds to the nearest one, ties  *)
(* to even (fl).  Inside getAcc the arithmetic is carried out exactly on    *)
(* rationals (integer numerators over the fixed denominators named below)   *)
(* and the returned acceleration is rounded once.  t, dt and tEnd are       *)
(* Python ints (simulation.py:62-64) and are exact.                         *)
(***************************************************************************)

\* ---- bounds of the model (scaled-down configuration of main) ----
N == 2
Nx == 4
CellWidth == 4
Prec == 3
MaxDt == 2
MaxTEnd == 2
MaxNull == 8

\* ---- configuration of main ----
n0 == 1
boxsize == Nx * CellWidth
dx == boxsize \div Nx

Nodes == 0..(Nx - 1)
Particles == 1..N

\* ---- float arithmetic ----
Abs(x) == IF x < 0 THEN -x ELSE x

RECURSIVE Pow2(_)
Pow2(e) == IF e = 0 THEN 1 ELSE 2 * Pow2(e - 1)

\* least exponent e >= 0 at which num/den fits in Prec mantissa bits
RECURSIVE Expo(_, _, _)
Expo(num, den, e) ==
    IF num < den * Pow2(Prec + e) THEN e ELSE Expo(num, den, e + 1)

RoundHalfEven(num, den) ==
    LET q == num \div den
        r == num % den
    IN  IF 2 * r < den THEN q
        ELSE IF 2 * r > den THEN q + 1
        ELSE IF q % 2 = 0 THEN q ELSE q + 1

\* the representable value nearest to the rational num/den (den > 0)
fl(num, den) ==
    LET m == Abs(num)
        e == Expo(m, den, 0)
        v == RoundHalfEven(m, den * Pow2(e)) * Pow2(e)
    IN  IF num < 0 THEN -v ELSE v

IsFloat(x) == fl(x, 1) = x

fadd(x, y) == fl(x + y, 1)

fmul(x, y) == fl(x * y, 1)

\* C fmod: exact, result has the sign of a
fmod(a, b) == IF a >= 0 THEN a % b ELSE -((-a) % b)

\* np.mod on floats, b > 0: fmod, then one rounded addition of b when the
\* remainder is negative
np_mod(a, b) ==
    LET r == fmod(a, b)
    IN  IF r < 0 THEN fadd(r, b) ELSE r

\* ---- sums ----
RECURSIVE SumRange(_, _, _)
SumRange(f, lo, hi) == IF lo > hi THEN 0 ELSE f[lo] + SumRange(f, lo + 1, hi)

Max(a, b) == IF a >= b THEN a ELSE b

RECURSIVE MaxRange(_, _, _)
MaxRange(f, lo, hi) ==
    IF lo = hi THEN f[lo] ELSE Max(f[lo], MaxRange(f, lo + 1, hi))

\* ---- create_matrices ----
\* sp.diags(vals, offs, shape=(Nx, Nx)): entry (i, k) carries vals[d] when
\* k - i = offs[d]; an offset that falls outside the matrix contributes nothing
diags(vals, offs) ==
    [i \in Nodes |-> [k \in Nodes |->
        SumRange([d \in 1..Len(vals) |-> IF k - i = offs[d] THEN vals[d] ELSE 0],
                 1, Len(vals))]]

MatAdd(A, B) == [i \in Nodes |-> [k \in Nodes |-> A[i][k] + B[i][k]]]

\* a matrix is kept as an integer stencil num over a common denominator den
GradientMatrix == [num |-> diags(<<-1, 1>>, <<0, 1>>), den |-> dx]

LaplacianMatrix ==
    [num |-> MatAdd(diags(<<1, -2, 1>>, <<-1, 0, 1>>),
                    diags(<<1, 1>>, <<1 - Nx, Nx - 1>>)),
     den |-> dx * dx]

create_matrices == [Gmtx |-> GradientMatrix, Lmtx |-> LaplacianMatrix]

\* ---- getAcc ----
\* denominators of the exact quantities inside getAcc:
\*   weights                  over dx
\*   density n and n - n0     over NDen = dx * (N * dx)
\*   potential phi            over PDen = N * Nx
\*   mesh field E_grid        over PDen * dx
\*   particle field E and a   over ADen = dx * PDen * dx
NDen == dx * (N * dx)
PDen == N * Nx
ADen == dx * PDen * dx

\* mutant: the cell index folded into the mesh before use
CellIndexWrapped(p) == (p \div dx) % Nx

\* j = np.floor(pos/dx).astype(int)
CellIndex(p) == p \div dx

\* mutant: the left weight measured from the left node
WeightJFromJ(p, jp1) == p - (jp1 - 1) * dx

\* weight_j = (jp1*dx - pos)/dx, as a numerator over dx
WeightJ(p, jp1) == jp1 * dx - p

\* weight_jp1 = (pos - j*dx)/dx, as a numerator over dx
WeightJp1(p, j) == p - j * dx

\* mutant: no periodic wrap of the right node
WrapIndexNone(jp1) == jp1

\* jp1 = np.mod(jp1, Nx)
WrapIndex(jp1) == jp1 % Nx

\* mutant: a scatter that overwrites (n[idx] = w) instead of accumulating:
\* each node keeps the weight of the last particle that indexes it
bincountOverwrite(idx, w, minlength) ==
    IF \E i \in Particles : idx[i] < 0
    THEN [err |-> TRUE, len |-> 0, val |-> <<>>]
    ELSE LET len == Max(minlength, MaxRange(idx, 1, N) + 1)
         IN  [err |-> FALSE, len |-> len,
              val |-> [k \in 0..(len - 1) |->
                  IF \E i \in Particles : idx[i] = k
                  THEN w[CHOOSE i \in Particles :
                           idx[i] = k /\ \A m \in Particles : idx[m] = k => m <= i]
                  ELSE 0]]

\* np.bincount(idx, weights=w, minlength=m): ValueError on a negative index;
\* otherwise an array of length max(m, max(idx) + 1) whose entry k is the sum
\* of the weights of the elements with index k
bincount(idx, w, minlength) ==
    IF \E i \in Particles : idx[i] < 0
    THEN [err |-> TRUE, len |-> 0, val |-> <<>>]
    ELSE LET len == Max(minlength, MaxRange(idx, 1, N) + 1)
         IN  [err |-> FALSE, len |-> len,
              val |-> [k \in 0..(len - 1) |->
                  SumRange([i \in Particles |-> IF idx[i] = k THEN w[i] ELSE 0],
                           1, N)]]

\* n += m on arrays: m is broadcast to the shape of n, ValueError when it
\* cannot be (its length is neither that of n nor 1)
iadd(n, m) ==
    IF n.err \/ m.err THEN [err |-> TRUE, len |-> 0, val |-> <<>>]
    ELSE IF m.len = n.len
    THEN [err |-> FALSE, len |-> n.len,
          val |-> [k \in 0..(n.len - 1) |-> n.val[k] + m.val[k]]]
    ELSE IF m.len = 1
    THEN [err |-> FALSE, len |-> n.len,
          val |-> [k \in 0..(n.len - 1) |-> n.val[k] + m.val[0]]]
    ELSE [err |-> TRUE, len |-> 0, val |-> <<>>]

\* lines 38-40: the density on the mesh, numerators over NDen
Deposit(j, jp1w, weight_j, weight_jp1) ==
    LET acc == iadd(bincount(j, weight_j, Nx), bincount(jp1w, weight_jp1, Nx))
    IN  IF acc.err THEN acc
        ELSE [err |-> FALSE, len |-> acc.len,
              val |-> [k \in 0..(acc.len - 1) |-> acc.val[k] * (n0 * boxsize)]]

\* n - n0, numerators over NDen
Source(n) == [k \in 0..(n.len - 1) |-> n.val[k] - n0 * NDen]

\* spsolve(Lmtx, b): ValueError when the length of b is not the order of the
\* matrix.  Lmtx is singular (its rows sum to zero), so a solution is fixed
\* only up to an additive constant c; with b summing to zero the solutions
\* are phi[k] = c + sum of d[m] for m < k, where d[k] - d[k-1] = dx^2 * b[k]
\* and the d[k] sum to zero.  Numerators over PDen.
spsolve(Lm, b, len, c) ==
    IF len # Nx THEN [err |-> TRUE, val |-> <<>>]
    ELSE LET S == [k \in Nodes |-> SumRange(b, 1, k)]
             total == SumRange(S, 0, Nx - 1)
             d == [k \in Nodes |-> Nx * S[k] - total]
         IN  [err |-> FALSE,
              val |-> [k \in Nodes |-> c * PDen + SumRange(d, 0, k - 1)]]

\* M @ x, numerators (the denominator is M.den times that of x)
MatVec(M, x) == [i \in Nodes |-> SumRange([k \in Nodes |-> M.num[i][k] * x[k]], 0, Nx - 1)]

\* E_grid = - Gmtx @ phi_grid, numerators over PDen * dx
Field(Gm, phi) == [i \in Nodes |-> -(MatVec(Gm, phi)[i])]

\* E = weight_j * E_grid[j] + weight_jp1 * E_grid[jp1], numerators over ADen
Gather(E_grid, j, jp1w, weight_j, weight_jp1) ==
    [i \in Particles |-> weight_j[i] * E_grid[j[i]] + weight_jp1[i] * E_grid[jp1w[i]]]

NoResult ==
    [err |-> TRUE, j |-> <<>>, jp1 |-> <<>>, weight_j |-> <<>>, weight_jp1 |-> <<>>,
     n |-> <<>>, src |-> <<>>, phi |-> <<>>, E_grid |-> <<>>, aNum |-> <<>>, a |-> <<>>]

\* getAcc(pos, Nx, boxsize, n0, Gmtx, Lmtx); c is the additive constant of
\* the solution spsolve returns.  err: the call raised.
getAcc(p, Gm, Lm, c) ==
    LET j == [i \in Particles |-> CellIndex(p[i])]
        jp1 == [i \in Particles |-> j[i] + 1]
        weight_j == [i \in Particles |-> WeightJ(p[i], jp1[i])]
        weight_jp1 == [i \in Particles |-> WeightJp1(p[i], j[i])]
        jp1w == [i \in Particles |-> WrapIndex(jp1[i])]
        n == Deposit(j, jp1w, weight_j, weight_jp1)
    IN  IF n.err THEN NoResult
        ELSE LET src == Source(n)
                 phi == spsolve(Lm, src, n.len, c)
             IN  IF phi.err THEN NoResult
                 ELSE LET E_grid == Field(Gm, phi.val)
                          E == Gather(E_grid, j, jp1w, weight_j, weight_jp1)
                          aNum == [i \in Particles |-> -E[i]]
                      IN  [err |-> FALSE, j |-> j, jp1 |-> jp1w,
                           weight_j |-> weight_j, weight_jp1 |-> weight_jp1,
                           n |-> n.val, src |-> src, phi |-> phi.val,
                           E_grid |-> E_grid, aNum |-> aNum,
                           a |-> [i \in Particles |-> fl(aNum[i], ADen)]]

\* ---- state ----
VARIABLES
    pc,            \* where main is: "start", "loop", "finished", "raised";
                   \* for a direct call of getAcc: "call_start", "call", "returned"
    Gmtx, Lmtx,    \* the operators built by create_matrices
    pos, vel,      \* particle positions and velocities
    t, dt, tEnd,   \* the clock and its configuration
    plotRealTime,  \* the plotting switch
    plots,         \* the calls of plot_data so far: <<(pos, vel, t), ...>>
    steps,         \* completed iterations of the while loop
    calls,         \* evaluations of getAcc so far
    res            \* what the last evaluation of getAcc produced

vars == <<pc, Gmtx, Lmtx, pos, vel, t, dt, tEnd, plotRealTime, plots, steps, calls, res>>

\* the float values of [0, boxsize): what rand(N,1) * boxsize can produce
PosInit == {p \in 0..(boxsize - 1) : IsFloat(p)}

\* initial velocities vth * randn + vb: the beam velocity, a small negative
\* value and one that carries a particle more than two box lengths back
VelInit == {fl(-(2 * boxsize + 2 * dx), 1), -2, 3}

\* the additive constants the singular solve may return
NullConsts == {0, MaxNull}

\* arguments of a direct call of getAcc: float values around the domain
PosArgs == {p \in (-dx)..(boxsize + dx) : IsFloat(p)}

\* main, lines 59-76
Init ==
    /\ pc = "start"
    /\ Gmtx = <<>>
    /\ Lmtx = <<>>
    /\ pos \in [Particles -> PosInit]
    /\ vel \in [Particles -> VelInit]
    /\ t = 0
    /\ dt \in 1..MaxDt
    /\ tEnd \in 0..MaxTEnd
    /\ plotRealTime \in BOOLEAN
    /\ plots = <<>>
    /\ steps = 0
    /\ calls = 0
    /\ res = NoResult

\* Gmtx, Lmtx = create_matrices(Nx, boxsize)
Create(next) ==
    /\ Gmtx' = create_matrices.Gmtx
    /\ Lmtx' = create_matrices.Lmtx
    /\ pc' = next
    /\ UNCHANGED <<pos, vel, t, dt, tEnd, plotRealTime, plots, steps, calls, res>>

Setup == pc = "start" /\ Create("loop")

\* mutant: the velocity is advanced first and the position uses the new one
IntegrateVelFirst(p, v, a, h) ==
    LET v1 == [i \in Particles |-> fadd(v[i], fmul(h, a[i]))]
        p1 == [i \in Particles |-> fadd(p[i], fmul(h, v1[i]))]
        p2 == [i \in Particles |-> np_mod(p1[i], boxsize)]
    IN  [pos |-> p2, vel |-> v1]

\* lines 86-90: pos += dt * vel; vel += dt * a; pos = np.mod(pos, boxsize)
Integrate(p, v, a, h) ==
    LET p1 == [i \in Particles |-> fadd(p[i], fmul(h, v[i]))]
        v1 == [i \in Particles |-> fadd(v[i], fmul(h, a[i]))]
        p2 == [i \in Particles |-> np_mod(p1[i], boxsize)]
    IN  [pos |-> p2, vel |-> v1]

Snapshot(p, v, time) == [pos |-> p, vel |-> v, t |-> time]

\* lines 96-97
PlotInLoop(shown, p, v, time) ==
    IF plotRealTime THEN Append(shown, Snapshot(p, v, time)) ELSE shown

\* mutant: the final plot is made whatever the switch says
PlotAtEndAlways(shown, p, v, time) == Append(shown, [pos |-> p, vel |-> v, t |-> time])

\* lines 100-101
PlotAtEnd(shown, p, v, time) ==
    IF ~plotRealTime THEN Append(shown, Snapshot(p, v, time)) ELSE shown

\* one iteration of the while loop, lines 81-97
Step ==
    /\ pc = "loop"
    /\ t < tEnd
    /\ \E c \in NullConsts :
        LET r == getAcc(pos, Gmtx, Lmtx, c)
            s == Integrate(pos, vel, r.a, dt)
        IN  /\ ~r.err
            /\ res' = r
            /\ pos' = s.pos
            /\ vel' = s.vel
            /\ t' = t + dt
            /\ plots' = PlotInLoop(plots, s.pos, s.vel, t + dt)
    /\ steps' = steps + 1
    /\ calls' = calls + 1
    /\ UNCHANGED <<pc, Gmtx, Lmtx, dt, tEnd, plotRealTime>>

\* an iteration in which getAcc raises: the exception leaves main
StepRaise ==
    /\ pc = "loop"
    /\ t < tEnd
    /\ getAcc(pos, Gmtx, Lmtx, 0).err
    /\ res' = NoResult
    /\ calls' = calls + 1
    /\ pc' = "raised"
    /\ UNCHANGED <<Gmtx, Lmtx, pos, vel, t, dt, tEnd, plotRealTime, plots, steps>>

\* the loop condition fails; lines 99-101
Finish ==
    /\ pc = "loop"
    /\ ~(t < tEnd)
    /\ plots' = PlotAtEnd(plots, pos, vel, t)
    /\ pc' = "finished"
    /\ UNCHANGED <<Gmtx, Lmtx, pos, vel, t, dt, tEnd, plotRealTime, steps, calls, res>>

Next == Setup \/ Step \/ StepRaise \/ Finish

Spec == Init /\ [][Next]_vars

\* ---- main started from a sample of the initial conditions ----
\* positions near the left edge, mid-box and near the right edge
PosStart == {1, fl(boxsize \div 2, 1), fl(boxsize - 2, 1)}

\* the beam velocity and a small negative velocity
VelStart == {-2, 3}

InitRun ==
    /\ pc = "start"
    /\ Gmtx = <<>>
    /\ Lmtx = <<>>
    /\ pos \in [Particles -> PosStart]
    /\ vel \in [Particles -> VelStart]
    /\ t = 0
    /\ dt \in 1..MaxDt
    /\ tEnd \in 0..MaxTEnd
    /\ plotRealTime \in BOOLEAN
    /\ plots = <<>>
    /\ steps = 0
    /\ calls = 0
    /\ res = NoResult

SpecRun == InitRun /\ [][Next]_vars

\* ---- getAcc called directly on arbitrary float arguments ----
InitCall ==
    /\ pc = "call_start"
    /\ Gmtx = <<>>
    /\ Lmtx = <<>>
    /\ pos \in [Particles -> PosArgs]
    /\ vel = [i \in Particles |-> 0]
    /\ t = 0
    /\ dt = 1
    /\ tEnd = 0
    /\ plotRealTime = FALSE
    /\ plots = <<>>
    /\ steps = 0
    /\ calls = 0
    /\ res = NoResult

SetupCall == pc = "call_start" /\ Create("call")

Call ==
    /\ pc = "call"
    /\ \E c \in NullConsts : res' = getAcc(pos, Gmtx, Lmtx, c)
    /\ calls' = calls + 1
    /\ pc' = "returned"
    /\ UNCHANGED <<Gmtx, Lmtx, pos, vel, t, dt, tEnd, plotRealTime, plots, steps>>

NextCall == SetupCall \/ Call

SpecCall == InitCall /\ [][NextCall]_vars

\* ---- properties ----
InDomain == \A i \in Particles : 0 <= pos[i] /\ pos[i] < boxsize

Returned == pc = "returned"

CeilDiv(a, b) == (a + b - 1) \div b

\* the solution spsolve returns solves the system: Lmtx @ phi = n - n0
SpsolveSolves ==
    (Returned /\ ~res.err) =>
        \A i \in Nodes :
            MatVec(Lmtx, res.phi)[i] * NDen = res.src[i] * (Lmtx.den * PDen)

\* C1: after every step of the time loop every particle position p satisfies
\* 0 <= p < boxsize, whatever the velocity and dt.
C1_PositionsInBox ==
    (pc \in {"loop", "finished", "raised"}) => InDomain

\* C2: for positions in [0, boxsize) the density computed by getAcc has
\* length Nx and sums to n0 * Nx (numerators over NDen), so n - n0 sums to 0.
C2_ChargeConserved ==
    (Returned /\ InDomain) =>
        /\ ~res.err
        /\ DOMAIN res.n = Nodes
        /\ SumRange(res.n, 0, Nx - 1) = n0 * Nx * NDen
        /\ SumRange(res.src, 0, Nx - 1) = 0

\* C2 witness: two particles deposited into the same cell
C2_Witness ==
    /\ Returned /\ InDomain /\ ~res.err
    /\ \E i, k \in Particles : i # k /\ res.j[i] = res.j[k] /\ pos[i] # pos[k]

\* C3: both operators are exactly periodic: row i of the gradient has -1/dx
\* at column i and +1/dx at column (i+1) mod Nx; row i of the Laplacian has
\* +1/dx^2 at columns (i-1) mod Nx and (i+1) mod Nx and -2/dx^2 at column i.
C3_OperatorsPeriodic ==
    (pc # "call_start") =>
        /\ Gmtx.den = dx
        /\ Lmtx.den = dx * dx
        /\ \A i, k \in Nodes :
            /\ Gmtx.num[i][k] =
                   (IF k = i THEN -1 ELSE 0) + (IF k = (i + 1) % Nx THEN 1 ELSE 0)
            /\ Lmtx.num[i][k] =
                   (IF k = i THEN -2 ELSE 0)
                   + (IF k = (i + 1) % Nx THEN 1 ELSE 0)
                   + (IF k = (i + Nx - 1) % Nx THEN 1 ELSE 0)

\* C4: when the deposited density equals n0 at every node, the field
\* E_grid = -Gmtx @ phi is zero at every node, whatever constant the solve
\* returns, and every particle's acceleration is zero.
C4_UniformFieldZero ==
    (Returned /\ ~res.err /\ \A k \in Nodes : res.src[k] = 0) =>
        /\ \A k \in Nodes : res.E_grid[k] = 0
        /\ \A i \in Particles : res.aNum[i] = 0

\* C5: deposition wraps: for every position in [0, boxsize) both node
\* indices lie in 0..Nx-1; a particle of the last cell uses nodes Nx-1 and 0,
\* one of the first cell nodes 0 and 1; charge lands on those nodes only.
C5_DepositWraps ==
    (Returned /\ InDomain) =>
        /\ ~res.err
        /\ \A i \in Particles :
            /\ res.j[i] \in Nodes
            /\ res.jp1[i] \in Nodes
            /\ (pos[i] >= (Nx - 1) * dx) => (res.j[i] = Nx - 1 /\ res.jp1[i] = 0)
            /\ (pos[i] < dx) => (res.j[i] = 0 /\ res.jp1[i] = 1)
            /\ (res.weight_j[i] > 0) => (res.n[res.j[i]] > 0)
            /\ (res.weight_jp1[i] > 0) => (res.n[res.jp1[i]] > 0)
        /\ \A k \in Nodes :
            (res.n[k] # 0) =>
                \E i \in Particles :
                    \/ res.j[i] = k /\ res.weight_j[i] > 0
                    \/ res.jp1[i] = k /\ res.weight_jp1[i] > 0

\* C5 witness: a particle strictly inside the last cell put charge on node 0
\* while no particle lies in the first cell
C5_Witness ==
    /\ Returned /\ InDomain /\ ~res.err
    /\ \E i \in Particles : pos[i] > (Nx - 1) * dx /\ res.jp1[i] = 0
    /\ \A i \in Particles : pos[i] >= dx
    /\ res.n[0] > 0

\* C6: the loop starts at t = 0, advances t by dt per step, steps only while
\* t < tEnd, and ends in the finished state with t >= tEnd after exactly
\* ceil(tEnd/dt) steps; main leaves the loop in no other way.
C6_LoopTerminates ==
    /\ pc \in {"start", "loop", "finished"}
    /\ t = steps * dt
    /\ steps <= CeilDiv(tEnd, dt)
    /\ (pc = "finished") => (t >= tEnd /\ steps = CeilDiv(tEnd, dt))

\* C7: with plotRealTime, plot_data is called once per step with that step's
\* wrapped positions and incremented time (the k-th call carries t = k*dt)
\* and not again after the loop; without it, never during the loop and once
\* after the loop with the final positions, velocities and t.
C7_SnapshotCadence ==
    /\ plotRealTime =>
        /\ Len(plots) = steps
        /\ \A k \in 1..Len(plots) : plots[k].t = k * dt
        /\ (steps > 0) => (plots[steps] = Snapshot(pos, vel, t))
    /\ ~plotRealTime =>
        /\ (pc # "finished") => (plots = <<>>)
        /\ (pc = "finished") => (plots = <<Snapshot(pos, vel, t)>>)

\* C7 witness: a finished run of two steps that plotted in real time
C7_Witness ==
    pc = "finished" /\ plotRealTime /\ steps = MaxTEnd /\ Len(plots) = MaxTEnd

\* C8: a position outside [0, boxsize) passed to getAcc makes the call
\* raise; no acceleration is returned for it.
C8_OutOfDomainRaises ==
    (Returned /\ ~InDomain) => res.err

\* C8 witness: calls with a position at boxsize exactly, a negative one, and
\* one beyond boxsize have raised
C8_Witness ==
    /\ Returned /\ res.err
    /\ \E i \in Particles : pos[i] = boxsize
    /\ \E i \in Particles : pos[i] < 0

\* C9: in each step the acceleration is computed once from the positions
\* before the step, positions advance with the velocity before the step,
\* velocities advance with that acceleration, positions are then wrapped
\* and t is incremented.
C9_StepOrder ==
    [][(pc = "loop" /\ steps' = steps + 1) =>
          /\ calls' = calls + 1
          /\ t' = t + dt
          /\ \E c \in NullConsts :
              LET r == getAcc(pos, Gmtx, Lmtx, c)
              IN  /\ ~r.err
                  /\ res' = r
                  /\ \A i \in Particles :
                      /\ vel'[i] = fadd(vel[i], fmul(dt, r.a[i]))
                      /\ pos'[i] = np_mod(fadd(pos[i], fmul(dt, vel[i])), boxsize)]_vars

\* C9 witness: a step was taken under a nonzero acceleration
C9_Witness ==
    /\ pc = "loop" /\ steps = 1 /\ ~res.err
    /\ \E i \in Particles : res.a[i] # 0 /\ vel[i] # 0

\* C10: for every position in [0, boxsize) the two weights lie in [0, 1] and
\* sum to exactly 1 (numerators over dx: in 0..dx, summing to dx); on a mesh
\* node the node's weight is 1 and the neighbour's 0; the gather uses the
\* indices and weights of the scatter.
C10_Weights ==
    (Returned /\ InDomain) =>
        /\ ~res.err
        /\ \A i \in Particles :
            /\ res.j[i] * dx <= pos[i] /\ pos[i] < (res.j[i] + 1) * dx
            /\ res.weight_j[i] \in 0..dx
            /\ res.weight_jp1[i] \in 0..dx
            /\ res.weight_j[i] + res.weight_jp1[i] = dx
            /\ (pos[i] = res.j[i] * dx) =>
                   (res.weight_j[i] = dx /\ res.weight_jp1[i] = 0)
            /\ -res.aNum[i] = res.weight_j[i] * res.E_grid[res.j[i]]
                              + res.weight_jp1[i] * res.E_grid[res.jp1[i]]

\* C10 witness: one particle exactly on a node, another strictly inside a
\* cell, in a nonzero field
C10_Witness ==
    /\ Returned /\ InDomain /\ ~res.err
    /\ \E i, k \in Particles :
        /\ pos[i] = res.j[i] * dx /\ res.weight_j[i] = dx
        /\ res.weight_jp1[k] > 0 /\ res.weight_j[k] > 0
        /\ res.aNum[k] # 0

====
